---- MODULE Spec2Model ----
(***************************************************************************)
(* Scroll timeline of the portfolio App component: the scroll and resize   *)
(* handlers, the render that derives the animation parameters, and the     *)
(* exit-arming effect (Spec); the pure functions of the presentation       *)
(* layers (PureSpec); and the case-study transition with its phase timers  *)
(* (CaseSpec, and CaseSpecFair for progress).  Each specification moves    *)
(* its own variables and leaves the others at rest.                        *)
(*                                                                         *)
(* Numbers.  Pixel quantities are integers (every viewport height of the   *)
(* model is a multiple of 5, so 9.4 x, 1.2 x and 0.2 x height are whole).  *)
(* Ratios are exact fractions <<n, d>> in lowest terms with d > 0; the     *)
(* result of 0/0 is NaN, and of n/0 is +/-Infinity, as in JavaScript.      *)
(***************************************************************************)
EXTENDS Integers, Naturals, Sequences, FiniteSets, TLC

VARIABLES
    window,          \* the browser: [scrollY, innerHeight, innerWidth]
    isMobile,        \* useState: media query matched
    scrollProgress,  \* useState: progress published by updateProgress
    scrollY,         \* useState: offset published by updateProgress
    exitArmed,       \* useState: the armed flag
    viewportSize,    \* useState: [width, height] set by handleResize
    portalMounted,   \* useState: the desktop portal element exists
    portalElements,  \* the DOM: the number of 'parallax-portal' elements
    prevScrollYRef,  \* useRef: previous offset, written by the arming effect
    view,            \* the values derived by the last committed render
    pc,              \* "idle", or "effects" while the passive effects of the
                     \* last commit have not run yet
    turbulenceOn,    \* useState: the camera shakes
    turbulenceRef,   \* useRef: turbulenceOn as the camera loop reads it
    footerHovered,   \* the browser: the pointer is over the plane footer
    hist,            \* history, for stating properties only: the last event,
                     \* whether the latest scroll moved upward, its length if
                     \* small, and the armed flag before the event
    openCaseStudy,   \* useState (App): the open project, Null or <<index>>
    expandRect,      \* useState (App): the selected window's DOMRect, Null
                     \* or <<id>>, id the identity of the object
    phase,           \* useState (CaseStudyTransition)
    rect,            \* useState (CaseStudyTransition): Null or <<id>>
    effectDeps,      \* the dependencies its three effects last ran with
    timers,          \* the pending timeouts: [kind, left, rect], left the ms
                     \* to go and rect the rect state the timeout was set under
    bodyOverflow,    \* document.body.style.overflow
    appMounted,      \* App is mounted
    caseHist,        \* history, for stating properties only: ms since the
                     \* latest window selection, the phase it arrived in,
                     \* and the latest handler of App that ran
    smoothedWindow,  \* the smoothed App variant, its browser: [scrollY, innerHeight]
    smoothedProgress, \* useState scrollProgress of the variant
    smoothedScrollY, \* useState scrollY of the variant
    scrollTargetRef, \* useRef: the progress of the latest scroll event
    scrollSmoothedRef, \* useRef: the value the frames move toward the target
    lastSetRef,      \* useRef: the value last published
    call,            \* a call of a pure function: [fn, arg]
    ret              \* its result: [done] or [done, value]

appVars == <<window, isMobile, scrollProgress, scrollY, exitArmed, viewportSize,
             portalMounted, portalElements, prevScrollYRef, view, pc,
             turbulenceOn, turbulenceRef, footerHovered, hist>>
caseVars == <<openCaseStudy, expandRect, phase, rect, effectDeps, timers,
              bodyOverflow, appMounted, caseHist>>
pureVars == <<call, ret>>
smoothVars == <<smoothedWindow, smoothedProgress, smoothedScrollY,
                scrollTargetRef, scrollSmoothedRef, lastSetRef>>

vars == <<appVars, caseVars, pureVars, smoothVars>>

----------------------------------------------------------------------------
(* Bounds of the model *)

\* the scroll offsets of the model are a 400 px grid of MaxGrid steps ...
MaxGrid == 24

\* ... from 1200 px above the top, and the positions around the thresholds
\* of a 1000 px and an 800 px viewport
GridOffsets == { 400 * k : k \in -3..MaxGrid }
ThresholdOffsets ==
    { 5760, 5880, 5920, 6720, 7260, 7272, 7284, 7395, 7400, 7405, 8000 }
Offsets == GridOffsets \cup ThresholdOffsets

\* elastic overscroll past either end of the document, px
Overscroll == 1200

Heights == { 0, 800, 1000 }
Widths == { 700, 1280 }

\* arguments of easeOutQuart: k / EaseDen from about -1/2 to 3/2
EaseDen == 12

\* progress handed to the overlays: k / ProgressDen from -1/10 to 11/10
ProgressDen == 200

\* hours of the day-night cycle: k / HourDen in [0, 24)
HourDen == 4

\* identities of the DOMRect objects a window selection can pass
MaxRects == 3
Rects == 1..MaxRects

\* the time between two observations of the clock, ms
TickMs == 40
SmoothedStepPx == 5
SmoothedSteps == 4

----------------------------------------------------------------------------
(* Exact arithmetic on ratios *)

Abs(n) == IF n < 0 THEN -n ELSE n

RECURSIVE GCD(_, _)
GCD(a, b) == IF b = 0 THEN a ELSE GCD(b, a % b)

NaN == <<0, 0>>
Infinity == <<1, 0>>
NegInfinity == <<-1, 0>>
Zero == <<0, 1>>
One == <<1, 1>>

IsNaN(a) == a = NaN
IsFinite(a) == a[2] > 0

\* n / d for d > 0, in lowest terms
Norm(n, d) == LET g == GCD(Abs(n), d) IN <<n \div g, d \div g>>

\* JavaScript's n / d on integers
Div(n, d) ==
    IF d = 0 THEN (IF n = 0 THEN NaN ELSE IF n > 0 THEN Infinity ELSE NegInfinity)
    ELSE IF d < 0 THEN Norm(-n, -d)
    ELSE Norm(n, d)

\* a < b and a <= b; every comparison with NaN is false
Less(a, b) ==
    /\ ~IsNaN(a) /\ ~IsNaN(b)
    /\ IF IsFinite(a) /\ IsFinite(b) THEN a[1] * b[2] < b[1] * a[2]
       ELSE IF IsFinite(a) THEN b = Infinity
       ELSE IF IsFinite(b) THEN a = NegInfinity
       ELSE a = NegInfinity /\ b = Infinity
Leq(a, b) == ~IsNaN(a) /\ ~IsNaN(b) /\ (a = b \/ Less(a, b))

\* Math.max and Math.min: NaN if either argument is NaN
MathMax(a, b) == IF IsNaN(a) \/ IsNaN(b) THEN NaN ELSE IF Less(a, b) THEN b ELSE a
MathMin(a, b) == IF IsNaN(a) \/ IsNaN(b) THEN NaN ELSE IF Less(b, a) THEN b ELSE a

\* 1 - a and a * k for a finite ratio a and an integer k
OneMinus(a) == IF IsFinite(a) THEN Norm(a[2] - a[1], a[2]) ELSE NaN
\* (k is cancelled against the denominator before multiplying)
Times(a, k) ==
    IF ~IsFinite(a) THEN NaN
    ELSE LET g == GCD(Abs(k), a[2]) IN Norm(a[1] * (k \div g), a[2] \div g)

\* 8 * a^4 for a finite ratio a, reduced after each squaring
EightFourth(a) ==
    LET s == Norm(2 * a[1] * a[1], a[2] * a[2])
    IN  Norm(2 * s[1] * s[1], s[2] * s[2])

InUnit(a) == Leq(Zero, a) /\ Leq(a, One)

\* a + b, a - b and a / b for finite ratios a and b
Plus(a, b) == Norm(a[1] * b[2] + b[1] * a[2], a[2] * b[2])
Minus(a, b) == Norm(a[1] * b[2] - b[1] * a[2], a[2] * b[2])
Quot(a, b) == Div(a[1] * b[2], a[2] * b[1])

----------------------------------------------------------------------------
(* Constants of the App module *)

PARALLAX_SCROLL_HEIGHT_VH == 700
PARALLAX_DWELL_VH == 220
PARALLAX_EXIT_VH == 120
EXIT_PROGRESS_THRESHOLD == <<3, 50>>          \* 0.06
EXIT_HIDDEN_THRESHOLD == <<999, 1000>>        \* 0.999
MOBILE_BREAKPOINT_PX == 768
MOBILE_HEIGHT_PX == 700

\* window.matchMedia(MOBILE_MEDIA_QUERY).matches
MediaMatches(w, h) == w <= MOBILE_BREAKPOINT_PX \/ h <= MOBILE_HEIGHT_PX

----------------------------------------------------------------------------
(* Easing curves *)

\* as easeOutQuart, without the clamp
easeOutQuart_NoClamp(t) ==
    LET m == t[2] - t[1]
        d2 == t[2] * t[2]
    IN  Norm(d2 * d2 - (m * m) * (m * m), d2 * d2)

\* 1 - (1 - clamp(t))^4
easeOutQuart(t) ==
    LET x == MathMax(Zero, MathMin(One, t))
    IN  IF IsNaN(x) THEN NaN
        ELSE LET m == x[2] - x[1]
                 d2 == x[2] * x[2]
             IN  Norm(d2 * d2 - (m * m) * (m * m), d2 * d2)

\* x < 0.5 ? 8 x^4 : 1 - (-2x + 2)^4 / 2, with x = clamp(t)
easeInOutQuart(t) ==
    LET x == MathMax(Zero, MathMin(One, t))
    IN  IF IsNaN(x) THEN NaN
        ELSE IF Less(x, <<1, 2>>) THEN EightFourth(x)
        ELSE OneMinus(EightFourth(OneMinus(x)))

----------------------------------------------------------------------------
(* The values a render derives (App, render body).  h is window.innerHeight *)
(* as read by the render, y and sp the scrollY and scrollProgress states,   *)
(* armed the exitArmed state and prev prevScrollYRef.current.               *)

parallaxProgress(sp) == easeOutQuart(sp)

maxScrollPx(h) == (PARALLAX_SCROLL_HEIGHT_VH \div 100) * h - h

tallDivHeightPx(h) ==
    ((PARALLAX_SCROLL_HEIGHT_VH - 100 + PARALLAX_DWELL_VH + PARALLAX_EXIT_VH) * h) \div 100

exitRangePx(h) == (PARALLAX_EXIT_VH * h) \div 100

scrollStartTranslatePx(h) == tallDivHeightPx(h) - h - exitRangePx(h)

layerTranslateY(y, armed, h) ==
    IF scrollStartTranslatePx(h) > 0 /\ armed /\ y > scrollStartTranslatePx(h)
    THEN y - scrollStartTranslatePx(h)
    ELSE 0

isScrollingUp(y, prev) == y < prev

Max(a, b) == IF a >= b THEN a ELSE b

exitProgressRaw(y, h) ==
    IF y > scrollStartTranslatePx(h)
    THEN MathMin(One, MathMax(Zero,
             Div(y - scrollStartTranslatePx(h), Max(1, exitRangePx(h)))))
    ELSE Zero

\* the remaining values, each from the values derived before it
exitProgress(raw) == IF Less(raw, EXIT_PROGRESS_THRESHOLD) THEN Zero ELSE raw

planeExitProgress(up, ep) == IF up THEN Zero ELSE ep

exitFade(ep) == IF Less(Zero, ep) THEN easeInOutQuart(ep) ELSE Zero

exitHidden(ep) == Leq(EXIT_HIDDEN_THRESHOLD, ep)

\* as effectiveParallaxProgress, with the pin taken when lty >= 0
effectiveParallaxProgress_PinFromZero(up, lty, pp) ==
    IF up THEN pp
    ELSE IF lty >= 0 THEN One
    ELSE pp

effectiveParallaxProgress(up, lty, pp) ==
    IF up THEN pp
    ELSE IF lty > 0 THEN One
    ELSE pp

\* as easedLayerTranslateY, with the exit progress not eased
easedLayerTranslateY_NotEased(ep, h) ==
    IF Less(Zero, ep) THEN Times(ep, h) ELSE Zero

easedLayerTranslateY(ep, h) ==
    IF Less(Zero, ep) THEN Times(easeInOutQuart(ep), h) ELSE Zero

\* as exitComplete, complete only strictly past the end of the exit range
exitComplete_StrictlyPast(y, h) == y > scrollStartTranslatePx(h) + exitRangePx(h)

exitComplete(y, h) == y >= scrollStartTranslatePx(h) + exitRangePx(h)

showPlaneLayer(y, h) == ~exitComplete(y, h)

\* style of the Plane + UI Overlay layer: opacity and visibility
\* as layerOpacity, without the fade
layerOpacity_NoFade(hidden, fade) == IF hidden THEN Zero ELSE One

layerOpacity(hidden, fade) == IF hidden THEN Zero ELSE OneMinus(fade)

layerVisibility(hidden) == IF hidden THEN "hidden" ELSE "visible"

\* style of the exit message: opacity
\* as exitMessageOpacity, without Math.min
exitMessageOpacity_NoMin(ep) == Times(ep, 6)

exitMessageOpacity(ep) == MathMin(One, Times(ep, 6))

\* one render of App: the derived values, and what the returned tree shows
Render(sp, y, armed, h, prev, mobile, portal) ==
    LET pp  == parallaxProgress(sp)
        lty == layerTranslateY(y, armed, h)
        up  == isScrollingUp(y, prev)
        raw == exitProgressRaw(y, h)
        ep  == exitProgress(raw)
    IN
    [ innerHeight               |-> h,
      parallaxProgress          |-> pp,
      maxScrollPx               |-> maxScrollPx(h),
      exitRangePx               |-> exitRangePx(h),
      scrollStartTranslatePx    |-> scrollStartTranslatePx(h),
      layerTranslateY           |-> lty,
      isScrollingUp             |-> up,
      exitProgressRaw           |-> raw,
      exitProgress              |-> ep,
      planeExitProgress         |-> planeExitProgress(up, ep),
      exitFade                  |-> exitFade(ep),
      exitHidden                |-> exitHidden(ep),
      effectiveParallaxProgress |-> effectiveParallaxProgress(up, lty, pp),
      easedLayerTranslateY      |-> easedLayerTranslateY(ep, h),
      exitComplete              |-> exitComplete(y, h),
      showPlaneLayer            |-> showPlaneLayer(y, h),
      \* {!isMobile && portalMounted && portalRef.current && createPortal(...)}
      portalShown               |-> ~mobile /\ portal,
      \* the Plane + UI Overlay layer inside the portal
      layerShown                |-> ~mobile /\ portal /\ showPlaneLayer(y, h),
      layerOpacity              |-> layerOpacity(exitHidden(ep), exitFade(ep)),
      layerVisibility           |-> layerVisibility(exitHidden(ep)),
      \* {exitProgress > 0 && <div ...>}: the exit message
      exitMessageShown          |-> ~mobile /\ portal /\ Less(Zero, ep),
      exitMessageOpacity        |-> exitMessageOpacity(ep),
      \* <Experience scrollProgress=...>: 0 in the mobile branch
      experienceProgress        |-> IF mobile THEN Zero ELSE sp ]

----------------------------------------------------------------------------
(* Handlers and effects *)

\* as updateProgress, without the upper clamp
updateProgress_NoUpperClamp(y, h) ==
    LET maxScroll == (PARALLAX_SCROLL_HEIGHT_VH \div 100) * h - h
    IN  IF maxScroll <= 0 THEN Zero
        ELSE MathMax(Zero, Div(y, maxScroll))

\* as updateProgress, without the maxScroll <= 0 guard
updateProgress_NoGuard(y, h) ==
    LET maxScroll == (PARALLAX_SCROLL_HEIGHT_VH \div 100) * h - h
    IN  MathMin(One, MathMax(Zero, Div(y, maxScroll)))

\* updateProgress: the progress it publishes for window.scrollY = y and
\* window.innerHeight = h
updateProgress(y, h) ==
    LET maxScroll == (PARALLAX_SCROLL_HEIGHT_VH \div 100) * h - h
    IN  IF maxScroll <= 0 THEN Zero
        ELSE MathMin(One, MathMax(Zero, Div(y, maxScroll)))

\* as exitArmingEffect, without the disarming branch
exitArmingEffect_NeverDisarms(v, y, prev, armed) ==
    LET exitTriggerPx == v.scrollStartTranslatePx + (v.innerHeight * 2) \div 10
    IN  IF y >= prev /\ y >= exitTriggerPx THEN TRUE ELSE armed

\* as exitArmingEffect, arming only strictly past the trigger
exitArmingEffect_StrictTrigger(v, y, prev, armed) ==
    LET exitTriggerPx == v.scrollStartTranslatePx + (v.innerHeight * 2) \div 10
        isScrollingDown == y >= prev
    IN  IF isScrollingDown /\ y > exitTriggerPx THEN TRUE
        ELSE IF ~isScrollingDown /\ Leq(v.exitProgressRaw, EXIT_PROGRESS_THRESHOLD)
             THEN FALSE
        ELSE armed

\* as exitArmingEffect, with one threshold for arming and disarming
exitArmingEffect_NoHysteresis(v, y, prev, armed) ==
    y >= v.scrollStartTranslatePx + (v.innerHeight * 2) \div 10

\* the exit-arming effect, run with the values of render v: the new armed flag
exitArmingEffect(v, y, prev, armed) ==
    LET enterBufferPx == (v.innerHeight * 2) \div 10
        exitTriggerPx == v.scrollStartTranslatePx + enterBufferPx
        isScrollingDown == y >= prev
    IN  IF isScrollingDown /\ y >= exitTriggerPx THEN TRUE
        ELSE IF ~isScrollingDown /\ Leq(v.exitProgressRaw, EXIT_PROGRESS_THRESHOLD)
             THEN FALSE
        ELSE armed

\* history only: the length of a scroll step of at most 10 px, else 0
StepOf(from, to) == IF Abs(to - from) <= 10 THEN Abs(to - from) ELSE 0

\* null, and the values that are null or an object
Null == <<>>

\* no case study is open and no transition component exists
CaseAtRest ==
    /\ openCaseStudy = Null /\ expandRect = Null
    /\ phase = "expanding" /\ rect = Null
    /\ effectDeps = [ e1 |-> <<>>, e2 |-> <<>>, e3 |-> <<>> ]
    /\ timers = {}
    /\ bodyOverflow = "auto" /\ appMounted = TRUE
    /\ caseHist = [ since |-> 0, restartedFrom |-> "none", last |-> "none" ]

\* no call of a pure function is under way
PureAtRest ==
    /\ call = [ fn |-> "none", arg |-> Zero ]
    /\ ret = [ done |-> FALSE ]

\* the smoothed variant of App: the target progress updateProgress computes
\* for window.scrollY = y and window.innerHeight = h
scrollTarget(y, h) ==
    LET maxScroll == (PARALLAX_SCROLL_HEIGHT_VH \div 100) * h - h
    IN  IF maxScroll <= 0 THEN Zero
        ELSE MathMin(One, MathMax(Zero, Div(y, maxScroll)))

\* the variant after the first render and the mount effects, page at the
\* top, in one of the windows ws
SmoothedInit(ws) ==
    /\ smoothedWindow \in ws
    /\ smoothedProgress = Zero
    /\ smoothedScrollY = smoothedWindow.scrollY
    /\ scrollTargetRef = scrollTarget(smoothedWindow.scrollY, smoothedWindow.innerHeight)
    /\ scrollSmoothedRef = Zero
    /\ lastSetRef = Zero

\* the variant at rest
SmoothedAtRest == SmoothedInit({ [ scrollY |-> 0, innerHeight |-> 1000 ] })

----------------------------------------------------------------------------
(* The case-study transition.  A window of the plane is selected (App,      *)
(* handleWindowSelect); App then renders CaseStudyTransition, whose three   *)
(* effects copy the rect, and time the phases expanding, white and          *)
(* case-study with timeouts.  An event is handled with the renders and the  *)
(* effects it causes: React runs the effects of a commit, and the cleanups  *)
(* among them, before it renders again.                                     *)

EXPAND_DURATION == 320     \* 0.32 s, in ms as handed to setTimeout
WHITE_HOLD == 120          \* 0.12 s, in ms as handed to setTimeout

\* the plane windows that open a case study, and the case studies of the view
CASE_STUDY_WINDOW_INDICES == { 0, 1 }
CASE_STUDY_INDICES == { 0, 1 }

\* {openCaseStudy !== null && expandRect && <CaseStudyTransition ... />},
\* inside the portal, in the last committed render
transitionMounted == view.portalShown /\ openCaseStudy # Null /\ expandRect # Null

\* as clearTimeout, clearing nothing
clearTimeout_Noop(ts, kind) == ts

\* clearTimeout(t), t the timeout the effect of this kind set when it last ran
clearTimeout(ts, kind) == { t \in ts : t.kind # kind }

setTimeout(ts, kind, ms, rc) == ts \cup { [ kind |-> kind, left |-> ms, rect |-> rc ] }

\* as expandEffectStartsTimer, without the test of the phase
expandEffectStartsTimer_AnyPhase(ph, rc) == rc # Null

\* the second effect sets its timeout unless (phase !== 'expanding' || !rect)
expandEffectStartsTimer(ph, rc) == ph = "expanding" /\ rc # Null

\* as whiteEffectStartsTimer, never setting the timeout
whiteEffectStartsTimer_Never(ph) == FALSE

\* the third effect sets its timeout unless (phase !== 'white')
whiteEffectStartsTimer(ph) == ph = "white"

\* the component: its state, the dependencies of its effects and its timeouts
Component ==
    [ phase |-> phase, rect |-> rect, deps |-> effectDeps, timers |-> timers ]

\* a new component: the initial state, no effect has run
NewComponent ==
    [ phase |-> "expanding", rect |-> Null,
      deps |-> [ e1 |-> <<>>, e2 |-> <<>>, e3 |-> <<>> ], timers |-> {} ]

\* the effects after a render of component c with the prop expandRect = er:
\* each effect whose dependencies changed runs its cleanup and then its body,
\* with the phase and rect of that render; the state the first effect sets
\* is the state of the next render
runEffects(c, er) ==
    LET run1 == c.deps.e1 # <<er>>
        run2 == c.deps.e2 # <<c.phase, c.rect>>
        run3 == c.deps.e3 # <<c.phase>>
        cleaned2 == IF run2 THEN clearTimeout(c.timers, "expand") ELSE c.timers
        cleaned3 == IF run3 THEN clearTimeout(cleaned2, "white") ELSE cleaned2
        set2 == IF run2 /\ expandEffectStartsTimer(c.phase, c.rect)
                THEN setTimeout(cleaned3, "expand", EXPAND_DURATION, c.rect)
                ELSE cleaned3
        set3 == IF run3 /\ whiteEffectStartsTimer(c.phase)
                THEN setTimeout(set2, "white", WHITE_HOLD, c.rect)
                ELSE set2
    IN  [ phase |-> IF run1 /\ er # Null THEN "expanding" ELSE c.phase,
          rect |-> IF run1 /\ er # Null THEN er ELSE c.rect,
          deps |-> [ e1 |-> <<er>>, e2 |-> <<c.phase, c.rect>>, e3 |-> <<c.phase>> ],
          timers |-> set3 ]

\* render and run the effects until no effect changes the state
RECURSIVE Settle(_, _)
Settle(c, er) ==
    LET n == runEffects(c, er) IN IF n = c THEN c ELSE Settle(n, er)

\* the component unmounts: the cleanups of its effects run
Unmount(c) ==
    [ NewComponent EXCEPT !.timers = clearTimeout(clearTimeout(c.timers, "expand"), "white") ]

SetComponent(c) ==
    /\ phase' = c.phase /\ rect' = c.rect
    /\ effectDeps' = c.deps /\ timers' = c.timers

\* a commit of App in which nothing of the case study changed but the portal:
\* the component unmounts with the portal, and mounts anew, from its initial
\* state, when the portal is back
commitTransition ==
    /\ UNCHANGED <<openCaseStudy, expandRect, bodyOverflow, appMounted>>
    /\ SetComponent(
          IF transitionMounted'
          THEN Settle(IF transitionMounted THEN Component ELSE NewComponent, expandRect)
          ELSE IF transitionMounted THEN Unmount(Component) ELSE Component)
    /\ caseHist' = IF ~transitionMounted /\ transitionMounted'
                   THEN [ caseHist EXCEPT !.since = 0, !.restartedFrom = "mount" ]
                   ELSE caseHist

----------------------------------------------------------------------------
(* App: mount, events and effects *)

\* App after the first render and the mount effects, page at the top, in one
\* of the windows ws
AppInit(ws) ==
    /\ window \in ws
    /\ isMobile = MediaMatches(window.innerWidth, window.innerHeight)
    /\ scrollProgress = updateProgress(window.scrollY, window.innerHeight)
    /\ scrollY = window.scrollY
    /\ exitArmed = FALSE
    /\ viewportSize = [ width |-> window.innerWidth, height |-> window.innerHeight ]
    /\ portalMounted = ~isMobile
    /\ portalElements = IF isMobile THEN 0 ELSE 1
    /\ prevScrollYRef = 0
    /\ view = Render(scrollProgress, scrollY, exitArmed, window.innerHeight,
                     prevScrollYRef, isMobile, portalMounted)
    /\ pc = "idle"
    /\ turbulenceOn = FALSE /\ turbulenceRef = FALSE /\ footerHovered = FALSE
    /\ hist = [ event |-> "mount", up |-> FALSE, step |-> 0, armedBefore |-> FALSE ]

\* state after the first render and the mount effects, page at the top
Init ==
    /\ AppInit([ scrollY : {0}, innerHeight : Heights, innerWidth : Widths ])
    /\ CaseAtRest
    /\ PureAtRest
    /\ SmoothedAtRest

\* the document of the desktop branch is the tall div (min-height
\* (700 - 100 + 220 + 120) vh); the mobile branch has fixed layers only, so
\* the page does not scroll.  The largest offset of the document:
DocScrollMax(mobile, h) == IF mobile THEN 0 ELSE tallDivHeightPx(h) - h

\* offsets the browser can report: the document's range and a bounded
\* elastic overscroll past either end
CanScrollTo(y, mobile, h) ==
    y >= -Overscroll /\ y <= DocScrollMax(mobile, h) + Overscroll

\* Plane renders its footer when its prop scrollProgress >= 0.98; its prop is
\* effectiveParallaxProgress, and Plane is rendered inside the layer
footerRendered(v) ==
    v.layerShown /\ Leq(Norm(98, 100), v.effectiveParallaxProgress)

\* the pointer after a commit that renders v: it stays over the footer while
\* the footer exists; a footer that is removed gets no mouseleave
pointerAfter(v) == footerHovered' = (footerHovered /\ footerRendered(v))

\* the scroll listener: updateProgress publishes progress and offset, and the
\* component renders
ScrollListener(up) ==
    /\ scrollProgress' = updateProgress(window'.scrollY, window'.innerHeight)
    /\ scrollY' = window'.scrollY
    /\ view' = Render(scrollProgress', scrollY', exitArmed, window'.innerHeight,
                      prevScrollYRef, isMobile, portalMounted)
    /\ pc' = "effects"
    /\ hist' = [ event |-> "scroll", up |-> up,
                 step |-> StepOf(scrollY, window'.scrollY), armedBefore |-> exitArmed ]
    /\ pointerAfter(view')
    /\ UNCHANGED <<isMobile, exitArmed, viewportSize, portalMounted, portalElements,
                   prevScrollYRef, turbulenceOn, turbulenceRef>>
    /\ UNCHANGED <<caseVars, pureVars, smoothVars>>

\* the user scrolls the page to offset y and the scroll event is delivered
Scroll(y) ==
    /\ pc = "idle"
    /\ window.scrollY = scrollY
    /\ y # window.scrollY
    /\ CanScrollTo(y, isMobile, window.innerHeight)
    /\ window' = [ window EXCEPT !.scrollY = y ]
    /\ ScrollListener(y < window.scrollY)

\* the scroll event of an offset the browser clamped to a shorter document
ClampedScroll ==
    /\ pc = "idle"
    /\ window.scrollY # scrollY
    /\ window' = window
    /\ ScrollListener(window.scrollY < scrollY)

\* a resize or orientationchange event to w x h: handleResize runs (and the
\* media query listener, to the same effect).  The offset is unchanged unless
\* it lies past the end of the new document, where the browser clamps it.
\* (An elastic overscroll springs back before the window is resized.)
Resize(w, h) ==
    /\ pc = "idle"
    /\ window.scrollY = scrollY
    /\ window.scrollY >= 0
    /\ window.scrollY <= DocScrollMax(isMobile, window.innerHeight)
    /\ <<w, h>> # <<window.innerWidth, window.innerHeight>>
    /\ window' = [ scrollY |-> IF window.scrollY > DocScrollMax(MediaMatches(w, h), h)
                               THEN DocScrollMax(MediaMatches(w, h), h)
                               ELSE window.scrollY,
                   innerWidth |-> w, innerHeight |-> h ]
    /\ isMobile' = MediaMatches(w, h)
    /\ viewportSize' = [ width |-> w, height |-> h ]
    /\ view' = Render(scrollProgress, scrollY, exitArmed, h,
                      prevScrollYRef, isMobile', portalMounted)
    /\ pc' = IF isMobile' # isMobile \/ h # window.innerHeight
             THEN "effects" ELSE "idle"
    /\ hist' = [ hist EXCEPT !.event = "resize", !.step = 0,
                             !.armedBefore = exitArmed ]
    /\ pointerAfter(view')
    /\ UNCHANGED <<scrollProgress, scrollY, exitArmed, portalMounted, portalElements,
                   prevScrollYRef, turbulenceOn, turbulenceRef>>
    /\ commitTransition
    /\ UNCHANGED <<pureVars, smoothVars>>

\* as portalEffect, with a cleanup that leaves the element in the document
portalEffect_NoRemove(mobile, mounted, els) ==
    IF mounted = ~mobile THEN els
    ELSE els + (IF mobile THEN 0 ELSE 1)

\* the portal effect on [isMobile], for a document with els portal elements:
\* it last ran for a desktop render exactly when portalMounted is set; when
\* isMobile changed since, the cleanup of that run removes its element, and
\* the body appends a new one unless isMobile
portalEffect(mobile, mounted, els) ==
    IF mounted = ~mobile THEN els
    ELSE (els - (IF mounted THEN 1 ELSE 0)) + (IF mobile THEN 0 ELSE 1)

\* the passive effects of the last commit: the portal effect (when isMobile
\* changed) and the exit-arming effect, then the render their state updates cause
Effects ==
    /\ pc = "effects"
    /\ portalMounted' = ~isMobile
    /\ portalElements' = portalEffect(isMobile, portalMounted, portalElements)
    /\ exitArmed' = IF isMobile THEN exitArmed
                    ELSE exitArmingEffect(view, scrollY, prevScrollYRef, exitArmed)
    /\ prevScrollYRef' = IF isMobile THEN prevScrollYRef ELSE scrollY
    /\ view' = IF exitArmed' # exitArmed \/ portalMounted' # portalMounted
               THEN Render(scrollProgress, scrollY, exitArmed', window.innerHeight,
                           prevScrollYRef', isMobile, portalMounted')
               ELSE view
    /\ pc' = "idle"
    /\ pointerAfter(view')
    /\ UNCHANGED <<window, isMobile, scrollProgress, scrollY, viewportSize,
                   turbulenceOn, turbulenceRef, hist>>
    /\ commitTransition
    /\ UNCHANGED <<pureVars, smoothVars>>

Next ==
    \/ \E y \in Offsets : Scroll(y)
    \/ ClampedScroll
    \/ \E w \in Widths, h \in Heights : Resize(w, h)
    \/ Effects

Spec == Init /\ [][Next]_vars

TypeOK ==
    /\ window.scrollY \in Offsets
    /\ isMobile \in BOOLEAN /\ exitArmed \in BOOLEAN /\ portalMounted \in BOOLEAN
    /\ pc \in {"idle", "effects", "turbulence"}

----------------------------------------------------------------------------
(* Turbulence: the pointer over the footer of the plane *)

\* setTurbulence(on): setTurbulenceOn(on); App renders when the state
\* changed, and the effect on [turbulenceOn] is then pending
setTurbulence(on) ==
    /\ turbulenceOn' = on
    /\ IF turbulenceOn' # turbulenceOn
       THEN /\ view' = Render(scrollProgress, scrollY, exitArmed, window.innerHeight,
                              prevScrollYRef, isMobile, portalMounted)
            /\ pc' = "turbulence"
       ELSE UNCHANGED <<view, pc>>

\* the pointer moves onto the footer: onMouseEnter
FooterEnter ==
    /\ pc = "idle"
    /\ footerRendered(view) /\ ~footerHovered
    /\ setTurbulence(TRUE)
    /\ footerHovered' = footerRendered(view')
    /\ hist' = [ hist EXCEPT !.event = "enter", !.step = 0, !.armedBefore = exitArmed ]
    /\ UNCHANGED <<window, isMobile, scrollProgress, scrollY, exitArmed, viewportSize,
                   portalMounted, portalElements, prevScrollYRef, turbulenceRef>>
    /\ UNCHANGED <<caseVars, pureVars, smoothVars>>

\* the pointer moves off the footer: onMouseLeave
FooterLeave ==
    /\ pc = "idle"
    /\ footerHovered
    /\ setTurbulence(FALSE)
    /\ footerHovered' = FALSE
    /\ hist' = [ hist EXCEPT !.event = "leave", !.step = 0, !.armedBefore = exitArmed ]
    /\ UNCHANGED <<window, isMobile, scrollProgress, scrollY, exitArmed, viewportSize,
                   portalMounted, portalElements, prevScrollYRef, turbulenceRef>>
    /\ UNCHANGED <<caseVars, pureVars, smoothVars>>

\* the effect on [turbulenceOn]: turbulenceRef.current = turbulenceOn
TurbulenceEffect ==
    /\ pc = "turbulence"
    /\ turbulenceRef' = turbulenceOn
    /\ pc' = "idle"
    /\ UNCHANGED <<window, isMobile, scrollProgress, scrollY, exitArmed, viewportSize,
                   portalMounted, portalElements, prevScrollYRef, view, turbulenceOn,
                   footerHovered, hist>>
    /\ UNCHANGED <<caseVars, pureVars, smoothVars>>

\* the camera loop of a frame: the shake is applied when the ref is set
cameraShakes == turbulenceRef

TurbulenceNext ==
    \/ Next
    \/ FooterEnter
    \/ FooterLeave
    \/ TurbulenceEffect

TurbulenceSpec == Init /\ [][TurbulenceNext]_vars

----------------------------------------------------------------------------
(* The text windows of the UI overlays *)

\* n / 100
Pct(n) == Norm(n, 100)

\* as fadeInOut, without the fade out after the peak
fadeInOut_NoFadeOut(start, peak, end, progress) ==
    IF Leq(progress, start) \/ Leq(end, progress) THEN Zero
    ELSE IF Less(progress, peak)
         THEN Quot(Minus(progress, start), Minus(peak, start))
    ELSE One

\* features/overlay/UIOverlay: helper for the fade-in/out opacity
fadeInOut(start, peak, end, progress) ==
    IF Leq(progress, start) \/ Leq(end, progress) THEN Zero
    ELSE IF Less(progress, peak)
         THEN Quot(Minus(progress, start), Minus(peak, start))
    ELSE Quot(Minus(end, progress), Minus(end, peak))

bioOpacity(sp) == fadeInOut(Pct(42), Pct(58), Pct(74), sp)
onboardOpacity(sp) == fadeInOut(Pct(73), Pct(81), Pct(90), sp)

\* the opacities a render of features/overlay/UIOverlay derives
UIOverlay(sp) ==
    [ bioOpacity |-> bioOpacity(sp), onboardOpacity |-> onboardOpacity(sp) ]

\* components/UIOverlay: the same windows, written out, with breakpoints of
\* their own
BIO_START == Pct(42)
BIO_PEAK == Pct(58)
BIO_END == Pct(74)
ONBOARD_START == Pct(72)
ONBOARD_PEAK == Pct(80)
ONBOARD_END == Pct(89)

componentsBioOpacity(sp) ==
    IF Leq(sp, BIO_START) THEN Zero
    ELSE IF Leq(BIO_END, sp) THEN Zero
    ELSE IF Less(sp, BIO_PEAK)
         THEN Quot(Minus(sp, BIO_START), Minus(BIO_PEAK, BIO_START))
    ELSE Quot(Minus(BIO_END, sp), Minus(BIO_END, BIO_PEAK))

componentsOnboardOpacity(sp) ==
    IF Leq(sp, ONBOARD_START) THEN Zero
    ELSE IF Leq(ONBOARD_END, sp) THEN Zero
    ELSE IF Less(sp, ONBOARD_PEAK)
         THEN Quot(Minus(sp, ONBOARD_START), Minus(ONBOARD_PEAK, ONBOARD_START))
    ELSE Quot(Minus(ONBOARD_END, sp), Minus(ONBOARD_END, ONBOARD_PEAK))

\* the opacities a render of components/UIOverlay derives
ComponentsUIOverlay(sp) ==
    [ bioOpacity |-> componentsBioOpacity(sp),
      onboardOpacity |-> componentsOnboardOpacity(sp) ]

----------------------------------------------------------------------------
(* The day-night theme lookup *)

\* the themes to blend and the blend factor for an hour of the cycle
getThemeState(hour) ==
    IF Leq(<<5, 1>>, hour) /\ Less(hour, <<8, 1>>)
    THEN [ target |-> "NIGHT", blend |-> "DAWN",
           alpha |-> Quot(Minus(hour, <<5, 1>>), <<3, 1>>) ]
    ELSE IF Leq(<<8, 1>>, hour) /\ Less(hour, <<17, 1>>)
    THEN [ target |-> "DAWN", blend |-> "DAY",
           alpha |-> Quot(Minus(hour, <<8, 1>>), <<9, 1>>) ]
    ELSE IF Leq(<<17, 1>>, hour) /\ Less(hour, <<21, 1>>)
    THEN [ target |-> "DAY", blend |-> "DUSK",
           alpha |-> Quot(Minus(hour, <<17, 1>>), <<4, 1>>) ]
    ELSE [ target |-> "DUSK", blend |-> "NIGHT",
           alpha |-> IF Leq(<<21, 1>>, hour)
                     THEN Quot(Minus(hour, <<21, 1>>), <<3, 1>>)
                     ELSE Quot(Plus(hour, <<3, 1>>), <<8, 1>>) ]

----------------------------------------------------------------------------
(* The pure functions, each applied to one argument of a bounded set *)

EaseInputs ==
    { Norm(k, EaseDen) : k \in (-(EaseDen \div 2))..(EaseDen + EaseDen \div 2) }
ProgressInputs ==
    { Norm(k, ProgressDen) : k \in (-(ProgressDen \div 10))..(ProgressDen + ProgressDen \div 10) }
HourInputs == { Norm(k, HourDen) : k \in 0..(24 * HourDen - 1) }

PureCalls ==
    [ fn : {"easeOutQuart"}, arg : EaseInputs ]
        \cup [ fn : {"UIOverlay", "ComponentsUIOverlay"}, arg : ProgressInputs ]
        \cup [ fn : {"getThemeState"}, arg : HourInputs ]

\* App at rest: a desktop window, page at the top
AppAtRest ==
    AppInit({ [ scrollY |-> 0, innerHeight |-> 1000, innerWidth |-> 1280 ] })

PureInit ==
    /\ AppAtRest /\ CaseAtRest /\ SmoothedAtRest
    /\ call \in PureCalls
    /\ ret = [ done |-> FALSE ]

\* the call returns v
Return(v) ==
    /\ ~ret.done
    /\ ret' = [ done |-> TRUE, value |-> v ]
    /\ UNCHANGED <<call, appVars, caseVars, smoothVars>>

CallEaseOutQuart == call.fn = "easeOutQuart" /\ Return(easeOutQuart(call.arg))

RenderUIOverlay == call.fn = "UIOverlay" /\ Return(UIOverlay(call.arg))

RenderComponentsUIOverlay ==
    call.fn = "ComponentsUIOverlay" /\ Return(ComponentsUIOverlay(call.arg))

CallGetThemeState == call.fn = "getThemeState" /\ Return(getThemeState(call.arg))

PureNext ==
    \/ CallEaseOutQuart
    \/ RenderUIOverlay
    \/ RenderComponentsUIOverlay
    \/ CallGetThemeState

PureSpec == PureInit /\ [][PureNext]_vars

----------------------------------------------------------------------------
(* The case-study transition: the handlers of App and the timeouts *)

\* as bodyOverflowEffect, with the test inverted
bodyOverflowEffect_Inverted(ocs) == IF ocs = Null THEN "hidden" ELSE "auto"

\* the body of App's effect on [openCaseStudy]
bodyOverflowEffect(ocs) == IF ocs # Null THEN "hidden" ELSE "auto"

\* the cleanup of that effect
bodyOverflowCleanup == "auto"

\* document.body.style.overflow after a render with openCaseStudy = ocs: the
\* effect runs, its cleanup first, when ocs is not what it last ran with
setBodyOverflow(ocs) ==
    bodyOverflow' = IF ocs # openCaseStudy THEN bodyOverflowEffect(ocs) ELSE bodyOverflow

CaseInit == AppAtRest /\ CaseAtRest /\ PureAtRest /\ SmoothedAtRest

\* the state of App that a handler of the case study leaves alone
appRest == <<window, isMobile, scrollProgress, scrollY, exitArmed, viewportSize,
             portalMounted, portalElements, prevScrollYRef, pc,
             turbulenceOn, turbulenceRef, hist>>

\* App renders after a state update of a handler of the case study
Rerender ==
    /\ view' = Render(scrollProgress, scrollY, exitArmed, window.innerHeight,
                      prevScrollYRef, isMobile, portalMounted)
    /\ pointerAfter(view')
    /\ UNCHANGED <<appRest, pureVars, smoothVars>>

\* a click on plane window index, whose bounding rect is the new object r:
\* setExpandRect(rect); setOpenCaseStudy(index), and the renders that follow
handleWindowSelect(index, r) ==
    /\ appMounted /\ pc = "idle"
    /\ view.layerShown
    /\ expandRect # <<r>>
    /\ expandRect' = <<r>>
    /\ openCaseStudy' = <<index>>
    /\ SetComponent(Settle(IF transitionMounted THEN Component ELSE NewComponent, <<r>>))
    /\ setBodyOverflow(<<index>>)
    /\ caseHist' = [ since |-> 0,
                     restartedFrom |-> IF transitionMounted THEN phase ELSE "mount",
                     last |-> "select" ]
    /\ Rerender
    /\ UNCHANGED appMounted

\* the close buttons of the case-study view: setOpenCaseStudy(null);
\* setExpandRect(null), and App no longer renders the component
handleCloseCaseStudy ==
    /\ pc = "idle"
    /\ transitionMounted /\ phase = "case-study"
    /\ openCaseStudy' = Null
    /\ expandRect' = Null
    /\ SetComponent(Unmount(Component))
    /\ setBodyOverflow(Null)
    /\ caseHist' = [ since |-> 0, restartedFrom |-> "none", last |-> "close" ]
    /\ Rerender
    /\ UNCHANGED appMounted

\* as onSelectProject, the button selecting the project as a plane window
\* does, with the bounding rect of the button
onSelectProject_AsWindowSelect(index) ==
    /\ transitionMounted /\ phase = "case-study"
    /\ openCaseStudy # <<index>>
    /\ \E r \in Rects : handleWindowSelect(index, r)

\* a project button of the case-study view: setOpenCaseStudy(index)
onSelectProject(index) ==
    /\ pc = "idle"
    /\ transitionMounted /\ phase = "case-study"
    /\ openCaseStudy # <<index>>
    /\ openCaseStudy' = <<index>>
    /\ SetComponent(Settle(Component, expandRect))
    /\ setBodyOverflow(<<index>>)
    /\ caseHist' = [ caseHist EXCEPT !.last = "switch" ]
    /\ Rerender
    /\ UNCHANGED <<expandRect, appMounted>>

\* timeout t is due and its callback runs: setPhase('white') of the second
\* effect, setPhase('case-study') of the third, and the renders that follow
\* (a state update of an unmounted component does nothing)
Timeout(t) ==
    /\ t \in timers /\ t.left = 0
    /\ SetComponent(
          IF transitionMounted
          THEN Settle([ Component EXCEPT
                          !.timers = timers \ {t},
                          !.phase = IF t.kind = "expand" THEN "white" ELSE "case-study" ],
                      expandRect)
          ELSE [ Component EXCEPT !.timers = timers \ {t} ])
    /\ UNCHANGED <<openCaseStudy, expandRect, bodyOverflow, appMounted, caseHist,
                   appVars, pureVars, smoothVars>>

Min(a, b) == IF a <= b THEN a ELSE b

\* TickMs pass while the component is mounted; a due timeout may run late
Tick ==
    /\ transitionMounted
    /\ timers' = { [ t EXCEPT !.left = Max(0, t.left - TickMs) ] : t \in timers }
    /\ caseHist' = [ caseHist EXCEPT
                       !.since = Min(EXPAND_DURATION + WHITE_HOLD, @ + TickMs) ]
    /\ UNCHANGED <<openCaseStudy, expandRect, phase, rect, effectDeps,
                   bodyOverflow, appMounted, appVars, pureVars, smoothVars>>

\* App unmounts: its state is gone, and the cleanups of its effects and of
\* the effects of the components it rendered run
AppUnmount ==
    /\ appMounted
    /\ appMounted' = FALSE
    /\ openCaseStudy' = Null /\ expandRect' = Null
    /\ SetComponent(Unmount(Component))
    /\ bodyOverflow' = bodyOverflowCleanup
    /\ caseHist' = [ since |-> 0, restartedFrom |-> "none", last |-> "unmount" ]
    /\ portalElements' = portalElements - (IF portalMounted THEN 1 ELSE 0)
    /\ UNCHANGED <<window, isMobile, scrollProgress, scrollY, exitArmed, viewportSize,
                   portalMounted, prevScrollYRef, view, pc, turbulenceOn,
                   turbulenceRef, footerHovered, hist>>
    /\ UNCHANGED <<pureVars, smoothVars>>

TimeoutFires == \E t \in timers : Timeout(t)

CaseNext ==
    \/ \E index \in CASE_STUDY_WINDOW_INDICES, r \in Rects : handleWindowSelect(index, r)
    \/ handleCloseCaseStudy
    \/ \E index \in CASE_STUDY_INDICES : onSelectProject(index)
    \/ TimeoutFires
    \/ Tick
    \/ AppUnmount

CaseSpec == CaseInit /\ [][CaseNext]_vars

\* the clock advances, and the event loop runs every timeout that is due
CaseSpecFair == CaseSpec /\ WF_vars(Tick) /\ WF_vars(TimeoutFires)

\* the page scrolls unless the body has overflow 'hidden'
PageScroll(y) == bodyOverflow # "hidden" /\ Scroll(y)

\* the offsets of the scroll events taken together with the case study
PortalOffsets == { y \in Offsets : y % 2400 = 0 }

\* App with its scroll and resize events and the case study
PortalNext ==
    \/ \E y \in PortalOffsets : PageScroll(y)
    \/ ClampedScroll
    \/ \E w \in Widths, h \in Heights : Resize(w, h)
    \/ Effects
    \/ \E index \in CASE_STUDY_WINDOW_INDICES, r \in Rects : handleWindowSelect(index, r)
    \/ handleCloseCaseStudy
    \/ \E index \in CASE_STUDY_INDICES : onSelectProject(index)
    \/ TimeoutFires
    \/ Tick

PortalSpec == Init /\ [][PortalNext]_vars

----------------------------------------------------------------------------
(* The variant of App that publishes scrollProgress from an animation frame *)

SCROLL_SMOOTH_LERP == 1
SCROLL_UPDATE_EPSILON == Norm(2, 1000)

\* Math.abs of a finite ratio
MathAbs(a) == <<Abs(a[1]), a[2]>>

\* the offsets of the scroll events of the variant, for a viewport height h:
\* steps of SmoothedStepPx at both ends of the parallax range, its middle, and
\* one past its end
SmoothedOffsets(h) ==
    LET maxScroll == (PARALLAX_SCROLL_HEIGHT_VH \div 100) * h - h
    IN  { y \in { k * SmoothedStepPx : k \in 0 .. SmoothedSteps }
                  \cup { maxScroll - k * SmoothedStepPx : k \in 0 .. SmoothedSteps }
                  \cup { maxScroll \div 2, maxScroll + 400 } : y >= 0 }

SmoothedAppInit ==
    /\ AppAtRest /\ CaseAtRest /\ PureAtRest
    /\ SmoothedInit([ scrollY : {0}, innerHeight : Heights ])

\* the user scrolls the page to offset y and the scroll event is delivered:
\* updateProgress stores the target and publishes the offset
SmoothedScroll(y) ==
    /\ y # smoothedWindow.scrollY
    /\ smoothedWindow' = [ smoothedWindow EXCEPT !.scrollY = y ]
    /\ scrollTargetRef' = scrollTarget(y, smoothedWindow.innerHeight)
    /\ smoothedScrollY' = y
    /\ UNCHANGED <<smoothedProgress, scrollSmoothedRef, lastSetRef>>
    /\ UNCHANGED <<appVars, caseVars, pureVars>>

\* the value a frame moves scrollSmoothedRef to
smoothedAfterTick ==
    Plus(scrollSmoothedRef,
         Times(Minus(scrollTargetRef, scrollSmoothedRef), SCROLL_SMOOTH_LERP))

\* changeOk of a frame: the value differs from the published one by more than
\* the epsilon
changeOk(smoothed) ==
    Less(SCROLL_UPDATE_EPSILON, MathAbs(Minus(smoothed, lastSetRef)))

\* an animation frame: tick
tick ==
    /\ scrollSmoothedRef' = smoothedAfterTick
    /\ IF changeOk(smoothedAfterTick)
       THEN lastSetRef' = smoothedAfterTick /\ smoothedProgress' = smoothedAfterTick
       ELSE UNCHANGED <<lastSetRef, smoothedProgress>>
    /\ UNCHANGED <<smoothedWindow, smoothedScrollY, scrollTargetRef>>
    /\ UNCHANGED <<appVars, caseVars, pureVars>>

SmoothedNext ==
    \/ \E y \in SmoothedOffsets(smoothedWindow.innerHeight) : SmoothedScroll(y)
    \/ tick

SmoothedSpec == SmoothedAppInit /\ [][SmoothedNext]_vars

----------------------------------------------------------------------------
(* The thresholds as the specification states them, for a viewport height h *)
(* that is a multiple of 5: 7.2 h, 1.2 h, 7.4 h and 8.4 h.                  *)

SpecStartPx(h) == (72 * h) \div 10
SpecRangePx(h) == (12 * h) \div 10
SpecArmPx(h) == (74 * h) \div 10
SpecCompletePx(h) == (84 * h) \div 10

\* (y - 7.2 h) / max(1, 1.2 h) compared with 0.06, by cross-multiplication
SpecRawBelow(y, h) ==
    y <= SpecStartPx(h) \/ (y - SpecStartPx(h)) * 50 < 3 * Max(1, SpecRangePx(h))
SpecRawAtMost(y, h) ==
    y <= SpecStartPx(h) \/ (y - SpecStartPx(h)) * 50 <= 3 * Max(1, SpecRangePx(h))

\* the effects of a scroll event on desktop have run
AfterScroll == pc = "idle" /\ hist.event = "scroll" /\ ~isMobile

----------------------------------------------------------------------------
(* C1 *)

\* C1: after an upward scroll on desktop to an offset whose raw exit progress
\* is below 0.06, exitProgress is exactly 0, the eased layer translation is 0
\* and armed is false, also when armed was true before that scroll.
C1_HysteresisReturnsToZero ==
    (AfterScroll /\ hist.up /\ SpecRawBelow(scrollY, window.innerHeight))
        => /\ view.exitProgress = Zero
           /\ view.easedLayerTranslateY = Zero
           /\ exitArmed = FALSE

\* an armed timeline has scrolled up into the strip just above the exit start
C1_Witness ==
    /\ AfterScroll /\ hist.up /\ hist.armedBefore
    /\ scrollY > SpecStartPx(window.innerHeight)
    /\ SpecRawBelow(scrollY, window.innerHeight)
    /\ ~exitArmed

----------------------------------------------------------------------------
(* C2 *)

\* C2: in every state where armed is false, exitProgress, the eased layer
\* translation and the exit fade of the layer are all 0.
C2_ExitGatedByArmed ==
    (pc = "idle" /\ ~isMobile /\ ~exitArmed)
        => /\ view.exitProgress = Zero
           /\ view.easedLayerTranslateY = Zero
           /\ view.exitFade = Zero

----------------------------------------------------------------------------
(* C3 *)

\* C3: after a scroll event on desktop, armed is true if the scroll did not
\* move upward and offset >= 7.4 h, false if it moved upward and the raw exit
\* progress is <= 0.06, and otherwise what it was; the previous offset equals
\* the new offset.
C3_ArmingRule ==
    AfterScroll
        => /\ exitArmed =
                IF ~hist.up /\ scrollY >= SpecArmPx(window.innerHeight) THEN TRUE
                ELSE IF hist.up /\ SpecRawAtMost(scrollY, window.innerHeight) THEN FALSE
                ELSE hist.armedBefore
           /\ prevScrollYRef = scrollY

\* a downward scroll to exactly the arm threshold has armed the timeline
C3_Witness ==
    /\ AfterScroll /\ ~hist.up /\ ~hist.armedBefore
    /\ scrollY = SpecArmPx(window.innerHeight)
    /\ exitArmed /\ prevScrollYRef = scrollY

----------------------------------------------------------------------------
(* C4 *)

\* the last scroll was a step of 5 or 10 px that ended within 5 px of the arm
\* threshold
SmallStepAtArmThreshold ==
    /\ AfterScroll /\ hist.step > 0
    /\ Abs(scrollY - SpecArmPx(window.innerHeight)) <= 5

\* C4: steps of +/-5 px around the arm threshold never disarm: an upward step
\* leaves armed as it was, and an armed timeline stays armed.
C4_NoToggleOnSmallSteps ==
    SmallStepAtArmThreshold
        => /\ hist.up => exitArmed = hist.armedBefore
           /\ hist.armedBefore => exitArmed

\* an armed timeline took a small upward step below the arm threshold and
\* is still armed
C4_Witness ==
    /\ SmallStepAtArmThreshold /\ hist.up /\ hist.armedBefore
    /\ scrollY < SpecArmPx(window.innerHeight)
    /\ exitArmed

----------------------------------------------------------------------------
(* C5 *)

\* C5: whenever the exit progress is > 0 the effective progress handed to the
\* UI overlay and the plane is 1 (so effectiveProgress < 1 implies
\* exitProgress = 0).
C5_MutuallyExclusive ==
    (view.layerShown /\ Less(Zero, view.exitProgress))
        => view.effectiveParallaxProgress = One

----------------------------------------------------------------------------
(* C6 *)

\* the raw layer translation is > 0 by the specification's thresholds
SpecRawTranslation ==
    /\ SpecStartPx(window.innerHeight) > 0
    /\ exitArmed
    /\ scrollY > SpecStartPx(window.innerHeight)

----------------------------------------------------------------------------
(* C7, C8 *)

\* clamp(y / maxScrollPx, 0, 1) with maxScrollPx = 6 h, and 0 when 6 h <= 0
SpecProgress(y, h) ==
    IF 6 * h <= 0 \/ y <= 0 THEN Zero
    ELSE IF y >= 6 * h THEN One
    ELSE Norm(y, 6 * h)

\* the phase the height h defines for offset y
SpecPhase(y, h) ==
    IF y >= SpecCompletePx(h) THEN "ExitComplete"
    ELSE IF ~SpecRawBelow(y, h) THEN "Exiting"
    ELSE IF SpecProgress(y, h) = One THEN "Dwell"
    ELSE "Entry"

\* the phase the outputs show: the layer is gone, or it is exiting, or the
\* published progress has reached 1, or it has not
ShownPhase ==
    IF view.exitComplete THEN "ExitComplete"
    ELSE IF Less(Zero, view.exitProgress) THEN "Exiting"
    ELSE IF scrollProgress = One THEN "Dwell"
    ELSE "Entry"

\* a resize on desktop that left the offset where it was
AfterResizeSameOffset ==
    /\ hist.event = "resize" /\ ~isMobile
    /\ window.scrollY = scrollY

\* C7: after a resize with the offset unchanged, scrollStartTranslatePx,
\* exitRangePx and the exit-complete boundary are those of the new height, and
\* the phase the outputs show for the offset is the one the new height defines.
C7_NoStaleThresholdAfterResize ==
    AfterResizeSameOffset
        => /\ view.scrollStartTranslatePx = SpecStartPx(window.innerHeight)
           /\ view.exitRangePx = SpecRangePx(window.innerHeight)
           /\ view.exitComplete = (scrollY >= SpecCompletePx(window.innerHeight))
           /\ ShownPhase = SpecPhase(scrollY, window.innerHeight)

\* C8: once an event has been handled, the published progress and the eased
\* progress are the values computed from the current offset and the current
\* viewport height.
C8_ProgressFromCurrentState ==
    (pc = "idle" /\ window.scrollY = scrollY)
        => /\ scrollProgress = SpecProgress(window.scrollY, window.innerHeight)
           /\ view.parallaxProgress =
                  easeOutQuart(SpecProgress(window.scrollY, window.innerHeight))

----------------------------------------------------------------------------
(* C9 *)

\* C9: with maxScrollPx = 6 h > 0, the progress a scroll event publishes is
\* clamp(offset / maxScrollPx, 0, 1): 0 for offset <= 0, 1 for offset >=
\* maxScrollPx, and no smaller than the progress of any lower offset.
C9_ProgressOnScroll ==
    (hist.event = "scroll" /\ 6 * window.innerHeight > 0)
        => /\ scrollProgress = SpecProgress(scrollY, window.innerHeight)
           /\ scrollY <= 0 => scrollProgress = Zero
           /\ scrollY >= 6 * window.innerHeight => scrollProgress = One
           /\ \A y \in Offsets :
                 y <= scrollY
                    => Leq(updateProgress(y, window.innerHeight), scrollProgress)

\* a scroll event published a progress strictly between 0 and 1
C9_Witness ==
    /\ hist.event = "scroll" /\ window.innerHeight > 0
    /\ scrollY > 0 /\ scrollY < 6 * window.innerHeight
    /\ Less(Zero, scrollProgress) /\ Less(scrollProgress, One)

----------------------------------------------------------------------------
(* C10 *)

\* the ratios a render derives
ViewRatios ==
    { view.parallaxProgress, view.exitProgressRaw, view.exitProgress,
      view.planeExitProgress, view.exitFade, view.effectiveParallaxProgress,
      view.easedLayerTranslateY, view.experienceProgress }

\* C10: when maxScrollPx <= 0 the progress a scroll event publishes is 0; the
\* exit progress is a value in [0,1], also when exitRangePx <= 0; and no
\* derived value is NaN or infinite.
C10_DegenerateIsNeutral ==
    /\ (hist.event = "scroll" /\ maxScrollPx(window.innerHeight) <= 0)
          => scrollProgress = Zero
    /\ InUnit(view.exitProgressRaw) /\ InUnit(view.exitProgress)
    /\ IsFinite(scrollProgress)
    /\ \A r \in ViewRatios : IsFinite(r)

\* a scroll event at viewport height 0 and an offset past the top: the exit
\* range is 0, the exit progress 1 and the progress 0
C10_Witness ==
    /\ hist.event = "scroll" /\ window.innerHeight = 0 /\ scrollY > 0
    /\ view.exitRangePx = 0 /\ view.maxScrollPx = 0
    /\ view.exitProgressRaw = One
    /\ scrollProgress = Zero

----------------------------------------------------------------------------
(* C11 *)

\* the scenario: a desktop window 1000 px high whose published offset is y
InScenario(y) ==
    /\ ~isMobile /\ window.innerHeight = 1000
    /\ window.scrollY = y /\ scrollY = y

\* C11: with a viewport 1000 px high (scroll height 700 vh): at offset 0 the
\* progress is 0 and the phase Entry; at offset maxScrollPx = 6000 the
\* progress is 1 and the phase Dwell, below scrollStartTranslatePx and with
\* no exit progress; at offset scrollStartTranslatePx + exitRangePx = 8400
\* the phase is ExitComplete and the plane/UI layer is not rendered.
C11_Scenario ==
    /\ InScenario(0)
          => scrollProgress = Zero /\ ShownPhase = "Entry"
    /\ InScenario(6000)
          => /\ view.maxScrollPx = 6000
             /\ scrollProgress = One /\ ShownPhase = "Dwell"
             /\ scrollY < view.scrollStartTranslatePx
             /\ view.exitProgress = Zero
    /\ InScenario(8400)
          => /\ view.scrollStartTranslatePx + view.exitRangePx = 8400
             /\ ShownPhase = "ExitComplete"
             /\ view.exitComplete /\ ~view.layerShown

\* the page was scrolled to 8400 px: the portal is shown without the layer
C11_Witness ==
    /\ InScenario(8400) /\ AfterScroll
    /\ view.portalShown /\ ~view.layerShown

----------------------------------------------------------------------------
(* C12 *)

\* C12: the eased layer translation is easeInOutQuart(exitProgress) x viewport
\* height when exitProgress > 0 and 0 when exitProgress = 0; where
\* exitProgress = 1 it is the viewport height exactly, and it never exceeds
\* the viewport height.
C12_EasedTranslation ==
    /\ view.easedLayerTranslateY =
          IF Less(Zero, view.exitProgress)
          THEN Times(easeInOutQuart(view.exitProgress), window.innerHeight)
          ELSE Zero
    /\ view.exitProgress = One
          => view.easedLayerTranslateY = <<window.innerHeight, 1>>
    /\ Leq(view.easedLayerTranslateY, <<window.innerHeight, 1>>)

\* the layer is shown part of the way through its exit
C12_Witness ==
    /\ AfterScroll /\ view.layerShown
    /\ Less(Zero, view.exitProgress) /\ Less(view.exitProgress, One)
    /\ Less(Zero, view.easedLayerTranslateY)
    /\ Less(view.easedLayerTranslateY, <<window.innerHeight, 1>>)

----------------------------------------------------------------------------
(* C13 *)

----------------------------------------------------------------------------
(* C14 *)

\* the ratios handed to the presentation layers
PresentedRatios ==
    { scrollProgress, view.experienceProgress, view.parallaxProgress,
      view.effectiveParallaxProgress, view.exitProgress,
      view.planeExitProgress, view.layerOpacity, view.exitMessageOpacity }

\* C14: for every offset, negative offsets and offsets past the end of the
\* document included, the progress, the eased and the effective progress, the
\* exit progress, the plane's exit progress, the layer opacity and the
\* exit-message opacity all lie in [0,1].
C14_RatiosInUnit == \A r \in PresentedRatios : InUnit(r)

\* the page is scrolled past the end of the document, the exit message shown
\* at the clamped opacity 1
C14_Witness ==
    /\ AfterScroll
    /\ scrollY > DocScrollMax(isMobile, window.innerHeight)
    /\ view.exitMessageShown /\ view.exitMessageOpacity = One
    /\ view.exitProgress = One

----------------------------------------------------------------------------
(* C15 *)

\* the ramp over the breakpoints s, pk, e (in hundredths) at progress p: 0 up
\* to s, linear to 1 at pk, linear to 0 at e, 0 from e on
SpecRamp(s, pk, e, p) ==
    IF p[1] * 100 <= s * p[2] \/ p[1] * 100 >= e * p[2] THEN Zero
    ELSE IF p[1] * 100 <= pk * p[2]
         THEN Norm(p[1] * 100 - s * p[2], (pk - s) * p[2])
    ELSE Norm(e * p[2] - p[1] * 100, (e - pk) * p[2])

\* an overlay has been rendered
OverlayRendered == ret.done /\ call.fn \in {"UIOverlay", "ComponentsUIOverlay"}

\* C15: each text window is the ramp over its breakpoints, bio 0.42 / 0.58 /
\* 0.74 and onboarding 0.73 / 0.81 / 0.90: opacity 0 for progress <= start,
\* linear up to 1 at peak, linear down to 0 at end, 0 for progress >= end,
\* always within [0,1].
C15_TextWindows ==
    OverlayRendered
        => /\ ret.value.bioOpacity = SpecRamp(42, 58, 74, call.arg)
           /\ ret.value.onboardOpacity = SpecRamp(73, 81, 90, call.arg)
           /\ InUnit(ret.value.bioOpacity) /\ InUnit(ret.value.onboardOpacity)

\* C15, amended: each text window is the ramp over its breakpoints, always
\* within [0,1] and 1 at the peak only: bio 0.42 / 0.58 / 0.74 in both
\* overlays; onboarding 0.73 / 0.81 / 0.90 in features/overlay/UIOverlay and
\* 0.72 / 0.80 / 0.89 in components/UIOverlay.
C15_TextWindowsPerOverlay ==
    OverlayRendered
        => /\ ret.value.bioOpacity = SpecRamp(42, 58, 74, call.arg)
           /\ ret.value.onboardOpacity =
                 IF call.fn = "UIOverlay" THEN SpecRamp(73, 81, 90, call.arg)
                 ELSE SpecRamp(72, 80, 89, call.arg)
           /\ InUnit(ret.value.bioOpacity) /\ InUnit(ret.value.onboardOpacity)
           /\ ret.value.bioOpacity = One <=> call.arg = Pct(58)
           /\ ret.value.onboardOpacity = One
                 <=> call.arg = (IF call.fn = "UIOverlay" THEN Pct(81) ELSE Pct(80))

\* components/UIOverlay rendered at a progress between 0.72 and 0.73: the
\* onboarding text has begun to fade in
C15_Witness ==
    /\ ret.done /\ call.fn = "ComponentsUIOverlay"
    /\ Less(Pct(72), call.arg) /\ Less(call.arg, Pct(73))
    /\ Less(Zero, ret.value.onboardOpacity)
    /\ Less(ret.value.onboardOpacity, One)

----------------------------------------------------------------------------
(* C16 *)

\* the hour of the model that follows hour h, past midnight back to 0
NextHour(h) ==
    Norm(((h[1] * HourDen) \div h[2] + 1) % (24 * HourDen), HourDen)

\* the position of a theme state on the cycle Night 0, Dawn 1, Day 2, Dusk 3
\* (and Night again 4): the target's place plus the blend factor
CyclePosition(ts) ==
    Plus(ts.alpha,
         <<CASE ts.target = "NIGHT" -> 0 [] ts.target = "DAWN" -> 1
             [] ts.target = "DAY" -> 2 [] ts.target = "DUSK" -> 3, 1>>)

\* the way forward round the cycle from position a to position b
CycleAdvance(a, b) ==
    IF Leq(a, b) THEN Minus(b, a) ELSE Minus(Plus(b, <<4, 1>>), a)

\* the blend factor that runs linearly from 0 to 1 over the bucket of hour h:
\* Night -> Dawn 5..8, Dawn -> Day 8..17, Day -> Dusk 17..21 and Dusk ->
\* Night 21..5 through midnight
SpecAlpha(h) ==
    IF Leq(<<5, 1>>, h) /\ Less(h, <<8, 1>>) THEN Quot(Minus(h, <<5, 1>>), <<3, 1>>)
    ELSE IF Leq(<<8, 1>>, h) /\ Less(h, <<17, 1>>) THEN Quot(Minus(h, <<8, 1>>), <<9, 1>>)
    ELSE IF Leq(<<17, 1>>, h) /\ Less(h, <<21, 1>>) THEN Quot(Minus(h, <<17, 1>>), <<4, 1>>)
    ELSE IF Leq(<<21, 1>>, h) THEN Quot(Minus(h, <<21, 1>>), <<8, 1>>)
    ELSE Quot(Plus(h, <<3, 1>>), <<8, 1>>)

\* C16: for every hour in [0,24) getThemeState returns two adjacent themes of
\* the cycle Night -> Dawn -> Day -> Dusk -> Night and a blend factor in [0,1]
\* that runs linearly from 0 at the start of the hour's bucket to 1 at its
\* end, and from one hour to the next, midnight included, the blend moves
\* forward round the cycle by no more than the steepest bucket allows (a
\* third of a theme per hour).
C16_ThemeBlend ==
    (ret.done /\ call.fn = "getThemeState")
        => /\ <<ret.value.target, ret.value.blend>> \in
                 { <<"NIGHT", "DAWN">>, <<"DAWN", "DAY">>,
                   <<"DAY", "DUSK">>, <<"DUSK", "NIGHT">> }
           /\ InUnit(ret.value.alpha)
           /\ ret.value.alpha = SpecAlpha(call.arg)
           /\ Leq(CycleAdvance(CyclePosition(ret.value),
                               CyclePosition(getThemeState(NextHour(call.arg)))),
                  <<1, 3 * HourDen>>)

----------------------------------------------------------------------------
(* C17 *)

\* a^4
Fourth(a) == Norm(a[1] * a[1] * a[1] * a[1], a[2] * a[2] * a[2] * a[2])

\* clamp(t, 0, 1)
Clamp01(t) == IF Less(t, Zero) THEN Zero ELSE IF Less(One, t) THEN One ELSE t

\* C17: easeOutQuart(t) = 1 - (1 - clamp(t, 0, 1))^4, easeOutQuart(0) = 0,
\* easeOutQuart(1) = 1, and the result is no smaller than the result for any
\* smaller argument, so the eased progress is non-decreasing in the progress.
C17_EaseOutQuart ==
    (ret.done /\ call.fn = "easeOutQuart")
        => /\ ret.value = OneMinus(Fourth(OneMinus(Clamp01(call.arg))))
           /\ call.arg = Zero => ret.value = Zero
           /\ call.arg = One => ret.value = One
           /\ \A u \in EaseInputs :
                 Leq(u, call.arg)
                    => /\ Leq(easeOutQuart(u), ret.value)
                       /\ Leq(parallaxProgress(u), parallaxProgress(call.arg))

\* easeOutQuart applied inside (0, 1): the result lies above its argument
C17_Witness ==
    /\ ret.done /\ call.fn = "easeOutQuart"
    /\ Less(Zero, call.arg) /\ Less(call.arg, One)
    /\ Less(call.arg, ret.value) /\ Less(ret.value, One)

----------------------------------------------------------------------------
(* C18 *)

\* a timeout of the given kind is due
Due(kind) == \E t \in timers : t.kind = kind /\ t.left = 0

\* C18: while the component stays mounted its phase changes only from
\* expanding to white, when the EXPAND_DURATION timeout fires, from white to
\* case-study, when the WHITE_HOLD timeout fires, and back to expanding, when
\* expandRect changes; never from expanding to case-study directly.
C18_PhaseOrder ==
    [][ (transitionMounted /\ transitionMounted' /\ phase' # phase)
          => \/ /\ phase = "expanding" /\ phase' = "white"
                /\ Due("expand") /\ expandRect' = expandRect
             \/ /\ phase = "white" /\ phase' = "case-study"
                /\ Due("white") /\ expandRect' = expandRect
             \/ /\ phase' = "expanding" /\ expandRect' # expandRect ]_vars

\* a window was selected while the case study was shown, and the transition
\* has gone back to expanding and on to white
C18_Witness ==
    /\ transitionMounted
    /\ caseHist.restartedFrom = "case-study"
    /\ phase = "white"

----------------------------------------------------------------------------
(* C19 *)

\* C19: if from some point on the component stays mounted with the same
\* expandRect, the phase eventually is case-study and stays case-study.
C19_ReachesCaseStudy ==
    \A r \in Rects :
        <>[](transitionMounted /\ expandRect = <<r>>) => <>[](phase = "case-study")

\* the case study is shown, no timeout is pending
C19_Witness ==
    /\ transitionMounted /\ phase = "case-study"
    /\ timers = {}
    /\ caseHist.restartedFrom = "mount"

----------------------------------------------------------------------------
(* C20 *)

\* C20: a change of expandRect cancels the pending timeout and restarts the
\* transition from expanding with a full EXPAND_DURATION timeout for the new
\* rect; white is reached no sooner than EXPAND_DURATION, and case-study no
\* sooner than EXPAND_DURATION + WHITE_HOLD, after the latest selection; and
\* every pending timeout was set by the mounted component for the current
\* rect and the current phase, so none of an earlier rect or of an unmounted
\* component can change the phase.
C20_RestartCancelsTimers ==
    /\ ~transitionMounted => timers = {}
    /\ \A t \in timers :
          /\ t.rect = expandRect /\ t.rect = rect
          /\ t.kind = "expand" => phase = "expanding"
          /\ t.kind = "white" => phase = "white"
    /\ Cardinality(timers) <= 1
    /\ (transitionMounted /\ caseHist.since = 0)
          => /\ phase = "expanding" /\ rect = expandRect
             /\ timers = { [ kind |-> "expand", left |-> EXPAND_DURATION,
                              rect |-> expandRect ] }
    /\ (transitionMounted /\ phase = "white")
          => caseHist.since >= EXPAND_DURATION
    /\ (transitionMounted /\ phase = "case-study")
          => caseHist.since >= EXPAND_DURATION + WHITE_HOLD

\* a window was selected while the WHITE_HOLD timeout was pending; the
\* transition has restarted, with only the new rect's timeout pending
C20_Witness ==
    /\ transitionMounted
    /\ caseHist.restartedFrom = "white" /\ caseHist.since = 0
    /\ phase = "expanding"
    /\ \A t \in timers : t.kind = "expand" /\ t.rect = expandRect

\* C21: a project switch inside the open case-study view changes only the open
\* project index: expandRect, the rect and the phase of the transition are
\* unchanged, the phase stays 'case-study', and no timeout of the mask-expand
\* animation is set, so the animation is not replayed
C21_SwitchKeepsTransition ==
    [][ (\E index \in CASE_STUDY_INDICES : onSelectProject(index))
          => /\ openCaseStudy' # openCaseStudy
             /\ expandRect' = expandRect
             /\ rect' = rect
             /\ phase = "case-study" /\ phase' = "case-study"
             /\ timers' = {} ]_vars

\* a project switch has happened in the open case-study view
C21_Witness ==
    /\ transitionMounted /\ phase = "case-study"
    /\ caseHist.last = "switch"
    /\ caseHist.since >= EXPAND_DURATION + WHITE_HOLD

\* C22: after any sequence of window selections, project switches, closes and
\* an unmount of App, document.body.style.overflow is 'hidden' exactly when a
\* case study is open, and otherwise 'auto'; it is 'auto' after a close and
\* after the unmount
C22_BodyOverflow ==
    /\ bodyOverflow = "hidden" <=> openCaseStudy # Null
    /\ bodyOverflow = "auto" <=> openCaseStudy = Null
    /\ caseHist.last \in { "close", "unmount" } => bodyOverflow = "auto"
    /\ caseHist.last \in { "select", "switch" } => bodyOverflow = "hidden"
    /\ ~appMounted => bodyOverflow = "auto"

\* a case study was opened and then closed
C22_Witness ==
    /\ appMounted /\ caseHist.last = "close"
    /\ openCaseStudy = Null /\ bodyOverflow = "auto"

\* C23: in every render of the desktop layer, if the latest scroll event moved
\* upward the Plane receives exit progress 0, and if it moved downward the
\* Plane receives exitProgress; the layer itself uses exitProgress for its
\* translation and opacity either way
C23_PlaneExitByDirection ==
    view.layerShown /\ hist.event # "mount"
      => /\ hist.up => view.planeExitProgress = Zero
         /\ ~hist.up => view.planeExitProgress = view.exitProgress
         /\ view.easedLayerTranslateY =
                easedLayerTranslateY(view.exitProgress, view.innerHeight)
         /\ view.layerOpacity = layerOpacity(view.exitHidden, view.exitFade)

\* C24: if the footer of the plane is not rendered, or the pointer is not over
\* it, turbulenceOn is false; and once the effects have run, the turbulenceRef
\* the camera loop reads equals turbulenceOn
C24_TurbulenceOnlyWhileHovered ==
    /\ ~(footerRendered(view) /\ footerHovered) => ~turbulenceOn
    /\ pc = "idle" => turbulenceRef = turbulenceOn /\ cameraShakes = turbulenceOn

\* C25: in every state where isMobile is true the plane/UI layer, the exit
\* message and the case study are not rendered, and the 3D experience receives
\* scroll progress 0 whatever the offset; once the effects of a switch have
\* run, exactly one 'parallax-portal' element exists when isMobile is false
\* and none when it is true
C25_MobileGating ==
    /\ isMobile => /\ ~view.portalShown /\ ~view.layerShown
                   /\ ~view.exitMessageShown
                   /\ ~transitionMounted /\ timers = {}
                   /\ view.experienceProgress = Zero
    /\ pc = "idle" => portalElements = (IF isMobile THEN 0 ELSE 1)
    /\ portalElements \in { 0, 1 }

\* a mobile viewport after a switch from desktop, with the page scrolled and
\* a case study open
C25_Witness ==
    /\ isMobile /\ pc = "idle" /\ hist.event = "resize"
    /\ scrollY > 0 /\ openCaseStudy # Null
    /\ portalElements = 0

\* the scroll event has been delivered and a further frame changes nothing:
\* until the next scroll event the state of the variant stays as it is
SmoothedSettled ==
    /\ scrollTargetRef = scrollTarget(smoothedWindow.scrollY, smoothedWindow.innerHeight)
    /\ scrollSmoothedRef = smoothedAfterTick
    /\ ~changeOk(smoothedAfterTick)

\* C26: in the smoothed variant, once the scroll offset no longer changes and
\* the frames have settled, the published scrollProgress equals the target
\* progress of the offset: 1 at an offset >= maxScrollPx, 0 at offset 0
C26_PublishedReachesTarget ==
    SmoothedSettled
      => smoothedProgress = scrollTarget(smoothedWindow.scrollY, smoothedWindow.innerHeight)

====
